---------------------------- MODULE Spec2Model ----------------------------
(***************************************************************************)
(* Codetown Vote Display: the Borda count pipeline of                      *)
(* src/vote_processor.py (BordaVoteProcessor.load_file and the three       *)
(* functions it calls), as a state machine over one vote file.             *)
(*                                                                         *)
(* Text is a sequence of one-character strings, so that strip(), split()   *)
(* and int() are computed character by character as Python computes them.  *)
(* A Python dict is a sequence of [key, val] records with pairwise         *)
(* distinct keys, in insertion order (dicts keep insertion order).         *)
(***************************************************************************)
EXTENDS Integers, Sequences, FiniteSets, TLC

(***************************************************************************)
(* Bounds of the model.                                                    *)
(***************************************************************************)
\* Largest number of names in a generated header, largest rank in a line.
MaxCands == 2
\* Largest number of lines after the header in a generated file.
MaxLines == 2
\* The most calls of load_file on one processor.
MaxLoads == 3
\* The most clicks on the two buttons of the window.
MaxEvents == 4

(***************************************************************************)
(* Characters and Python's built-in text functions.                        *)
(***************************************************************************)
NL == "\n"
SEMI == ";"

\* Unicode code points of the characters that occur in the generated files.
ord ==
    (NL :> 10) @@ (" " :> 32) @@ ("+" :> 43) @@ ("-" :> 45) @@
    ("0" :> 48) @@ ("1" :> 49) @@ ("2" :> 50) @@ ("3" :> 51) @@ ("4" :> 52) @@
    ("5" :> 53) @@ ("6" :> 54) @@ ("7" :> 55) @@ ("8" :> 56) @@ ("9" :> 57) @@
    (";" :> 59) @@ ("A" :> 65) @@ ("B" :> 66) @@ ("C" :> 67) @@ ("_" :> 95) @@
    ("a" :> 97) @@ ("b" :> 98) @@ ("c" :> 99) @@ ("e" :> 101) @@ ("i" :> 105) @@
    ("l" :> 108) @@ ("o" :> 111) @@ ("r" :> 114) @@ ("x" :> 120)

Chars == DOMAIN ord

\* str.isspace() on the characters of the alphabet.
IsSpace(c) == c \in {" ", NL}

\* The decimal digits and their values.
IsDigit(c) == c \in {"0", "1", "2", "3", "4", "5", "6", "7", "8", "9"}
DigitVal(c) == ord[c] - ord["0"]

RECURSIVE lstrip(_)
lstrip(s) ==
    IF s # <<>> /\ IsSpace(Head(s)) THEN lstrip(Tail(s)) ELSE s

RECURSIVE rstrip(_)
rstrip(s) ==
    IF s # <<>> /\ IsSpace(s[Len(s)]) THEN rstrip(SubSeq(s, 1, Len(s) - 1)) ELSE s

\* str.strip(): whitespace removed at both ends, the interior untouched.
\* strip() that removes the line terminator at the end and nothing at the
\* beginning, as rstrip() does.
strip_TrailingOnly(s) == rstrip(s)

strip(s) == rstrip(lstrip(s))

RECURSIVE SplitFrom(_, _, _, _)
SplitFrom(s, i, cur, acc) ==
    IF i > Len(s) THEN Append(acc, cur)
    ELSE IF s[i] = SEMI THEN SplitFrom(s, i + 1, <<>>, Append(acc, cur))
    ELSE SplitFrom(s, i + 1, Append(cur, s[i]), acc)

\* str.split(";"): the pieces between the semicolons, empty pieces kept;
\* the empty string splits to one empty piece.
split(s) == SplitFrom(s, 1, <<>>, <<>>)

\* The digits part of an integer literal: digits, with single underscores
\* allowed between two digits.
IsDigitString(b) ==
    /\ b # <<>>
    /\ IsDigit(b[1])
    /\ IsDigit(b[Len(b)])
    /\ \A i \in 1..Len(b) : IsDigit(b[i]) \/ b[i] = "_"
    /\ \A i \in 1..(Len(b) - 1) : ~(b[i] = "_" /\ b[i + 1] = "_")

RECURSIVE DigitsValue(_, _)
DigitsValue(b, acc) ==
    IF b = <<>> THEN acc
    ELSE IF Head(b) = "_" THEN DigitsValue(Tail(b), acc)
    ELSE DigitsValue(Tail(b), 10 * acc + DigitVal(Head(b)))

\* int(s) for a string: surrounding whitespace is ignored, one sign is
\* allowed, then a digit string.  ok = FALSE stands for ValueError.
int(s) ==
    LET t == strip(s)
        signed == t # <<>> /\ Head(t) \in {"+", "-"}
        body == IF signed THEN Tail(t) ELSE t
        mag == DigitsValue(body, 0)
    IN  IF IsDigitString(body)
        THEN [ok |-> TRUE, val |-> IF signed /\ Head(t) = "-" THEN 0 - mag ELSE mag]
        ELSE [ok |-> FALSE, val |-> 0]

RECURSIVE StrLess(_, _)
\* s < t for two strings: code point by code point, a proper prefix first.
StrLess(s, t) ==
    IF t = <<>> THEN FALSE
    ELSE IF s = <<>> THEN TRUE
    ELSE IF ord[Head(s)] # ord[Head(t)] THEN ord[Head(s)] < ord[Head(t)]
    ELSE StrLess(Tail(s), Tail(t))

(***************************************************************************)
(* Python dicts and sorted().                                              *)
(***************************************************************************)
DictKeys(d) == [i \in 1..Len(d) |-> d[i].key]
DictHas(d, k) == \E i \in 1..Len(d) : d[i].key = k
DictGet(d, k) == d[CHOOSE i \in 1..Len(d) : d[i].key = k].val

\* d[k] = v: an existing key keeps its place, a new key goes last.
DictSet(d, k, v) ==
    IF DictHas(d, k)
    THEN [i \in 1..Len(d) |-> IF d[i].key = k THEN [key |-> k, val |-> v] ELSE d[i]]
    ELSE Append(d, [key |-> k, val |-> v])

RECURSIVE DictFromItems(_, _)
\* dict(items), and the dict comprehension {k: v for ...}.
DictFromItems(items, d) ==
    IF items = <<>> THEN d
    ELSE DictFromItems(Tail(items), DictSet(d, Head(items).key, Head(items).val))

\* KeyLess without the name as second key: key=lambda item: -item[1].
KeyLess_ScoreOnly(a, b) == (0 - a.val) < (0 - b.val)

\* The sort key of line 283, (-item[1], item[0]), compared as tuples.
KeyLess(a, b) ==
    \/ (0 - a.val) < (0 - b.val)
    \/ (0 - a.val) = (0 - b.val) /\ StrLess(a.key, b.key)

RECURSIVE InsertSorted(_, _)
\* x goes after every element that does not compare greater (stable).
InsertSorted(x, s) ==
    IF s = <<>> THEN <<x>>
    ELSE IF KeyLess(x, Head(s)) THEN <<x>> \o s
    ELSE <<Head(s)>> \o InsertSorted(x, Tail(s))

RECURSIVE SortedFrom(_, _)
SortedFrom(items, acc) ==
    IF items = <<>> THEN acc
    ELSE SortedFrom(Tail(items), InsertSorted(Head(items), acc))

\* sorted(items, key=...): a stable ascending sort by the key.
sorted(items) == SortedFrom(items, <<>>)

(***************************************************************************)
(* The vote files the model loads.                                         *)
(***************************************************************************)
RECURSIVE Join(_)
\* The pieces written with a semicolon between them.
Join(parts) ==
    IF parts = <<>> THEN <<>>
    ELSE IF Len(parts) = 1 THEN parts[1]
    ELSE parts[1] \o <<SEMI>> \o Join(Tail(parts))

SeqsFromTo(S, lo, hi) == UNION {[1..k -> S] : k \in lo..hi}

Names == {<<"A">>, <<"B">>, <<"a">>}

\* Every header of at most MaxCands names.
ValidHeaders == {Join(p) : p \in SeqsFromTo(Names, 1, MaxCands)}

\* Every header of at most MaxCands pieces, some of them possibly empty.
AnyHeaders ==
    {Join(p) : p \in SeqsFromTo(Names \cup {<<>>}, 1, MaxCands)}
        \cup {<<"A", ";", ";", "B">>, <<" ">>}

DigitChar == [k \in 0..4 |-> CASE k = 0 -> "0" [] k = 1 -> "1" [] k = 2 -> "2"
                                  [] k = 3 -> "3" [] k = 4 -> "4"]

PermsOf(n) == {p \in [1..n -> 1..n] : \A i, j \in 1..n : p[i] = p[j] => i = j}

\* The complete rankings of 1..n for every n up to MaxCands, as text.
RankLines ==
    UNION {{Join([i \in 1..n |-> <<DigitChar[p[i]]>>]) : p \in PermsOf(n)} :
              n \in 1..MaxCands}

\* Lines that are no complete ranking: a blank line, a repeated rank, a
\* doubled semicolon.
OddLines ==
    { <<>>,
      <<"1", ";", "1">>,
      <<"1", ";", ";", "2">> }

FileLines == RankLines \cup OddLines

\* The pieces of the lines that are enumerated piece by piece.
Tokens ==
    {<<DigitChar[k]>> : k \in 0..(MaxCands + 1)}
        \cup {<<>>, <<"x">>, <<"+", "1">>, <<"-", "1">>, <<" ", "2">>,
              <<"1", "_", "0">>}

TokenLines == {Join(p) : p \in SeqsFromTo(Tokens, 1, MaxCands)}

\* What readline()/readlines() return for a line of the file: the text of
\* the line and its line terminator.
RawLine(text) == text \o <<NL>>
RawLines(ls) == [i \in 1..Len(ls) |-> RawLine(ls[i])]

\* A file of the file system: what the reads return for its lines, and
\* what becomes of an attempt to open and read it.
TextFile(h, ls) == [header |-> RawLine(h), lines |-> RawLines(ls), status |-> "ok"]

\* The file with nothing in it: readline() returns the empty string.
EmptyFile == [header |-> <<>>, lines |-> <<>>, status |-> "ok"]

\* What can be wrong with a path: nothing is there, the process may not
\* read it, open() fails otherwise (the path is a directory), a read
\* fails (the disk), the bytes are no text in the encoding of open().
FaultyStatuses ==
    {"missing", "no_permission", "open_fault", "read_fault", "undecodable"}

\* The exception open(filename, 'r') raises, "none" if it returns a handle.
open_raises(status) ==
    CASE status = "missing" -> "FileNotFoundError"
      [] status = "no_permission" -> "PermissionError"
      [] status = "open_fault" -> "OSError"
      [] OTHER -> "none"

\* The exception readline()/readlines() raise, "none" if they return.
read_raises(status) ==
    CASE status = "read_fault" -> "OSError"
      [] status = "undecodable" -> "UnicodeDecodeError"
      [] OTHER -> "none"

\* The classes of the exceptions that are subclasses of OSError (IOError
\* is OSError); UnicodeDecodeError is a subclass of ValueError.
IsOSError(exc) == exc \in {"FileNotFoundError", "PermissionError", "OSError"}

Alice == <<"A", "l", "i", "c", "e">>
Bob == <<"B", "o", "b">>
Carol == <<"C", "a", "r", "o", "l">>

\* The files of the scenarios of the specification that need three names.
ScenarioFiles ==
    { TextFile(Join(<<Alice, Bob, Carol>>),
               <<(<<"1", ";", "2", ";", "3">>), (<<"3", ";", "2", ";", "1">>)>>),
      TextFile(Join(<<Carol, Bob, Alice>>),
               <<(<<"1", ";", "2", ";", "3">>), (<<"3", ";", "2", ";", "1">>)>>),
      TextFile(Alice, <<(<<"1">>)>>),
      TextFile(<<"A", ";", "B", ";", "C">>, <<(<<"1", ";", "2">>)>>) }

\* Headers with a space before, inside, between or after their names.
SpacedHeaders ==
    { <<" ", "A", ";", "B">>, <<"A", ";", "B", " ">>, <<" ", "A", ";", " ", "B">>,
      <<"A", " ", ";", "B">>, <<"A", " ", "B">>, <<" ", "A", " ">> }

\* The files that are loaded one after the other on one processor: files
\* that are accepted (one of them with a repeated name), files that each
\* validator rejects, a path with nothing at it.
SessionFiles ==
    ScenarioFiles
        \cup { EmptyFile,
                TextFile(<<"A", ";", "A">>, <<(<<"2", ";", "1">>)>>),
                TextFile(<<"A", ";", "B">>, <<(<<"1", ";", "2">>), (<<"1", ";", "1">>)>>),
                TextFile(<<"A">>, <<>>),
                [EmptyFile EXCEPT !.status = "missing"] }

\* f is one of the files the model loads:
\* (1) a well-formed header and up to MaxLines of FileLines;
\* (2) a well-formed header and one line enumerated piece by piece;
\* (3) any header and at most one line;
\* (3b) a header with spaces and one or two ballots;
\* (4) the empty file, and the files of the scenarios;
\* (5) paths that cannot be opened or read.
IsFile(f) ==
    \/ \E h \in ValidHeaders, ls \in SeqsFromTo(FileLines, 0, MaxLines) :
          f = TextFile(h, ls)
    \/ \E h \in ValidHeaders, l \in TokenLines : f = TextFile(h, <<l>>)
    \/ \E h \in AnyHeaders, ls \in SeqsFromTo(FileLines, 0, 1) :
          f = TextFile(h, ls)
    \/ \E h \in SpacedHeaders, ls \in SeqsFromTo(RankLines, 1, 2) :
          f = TextFile(h, ls)
    \/ f = EmptyFile
    \/ f \in ScenarioFiles
    \/ \E s \in FaultyStatuses, g \in {EmptyFile, TextFile(<<"A">>, <<(<<"1">>)>>)} :
          f = [g EXCEPT !.status = s]

(***************************************************************************)
(* State.                                                                  *)
(***************************************************************************)
VARIABLES
    file,                     \* the file at the path load_file is called with
    history,                  \* the earlier loads of the processor and their outcomes
    gui,                      \* the VoteCounterGUI: its StringVar, label and Text widget
    pc,                       \* where load_file is
    handle,                   \* load_file: the file object f of open()
    ln1,                      \* load_file: the stripped first line
    lines_from_second,        \* load_file: the stripped remaining lines
    ln1_candidates,           \* the list valid_first_line returned
    index_pos,                \* check_votes...: the line the loop is at
    lines_split,              \* check_votes...: how many lines were split
    meta_cleaned_votes_list,  \* the list of votesets
    final_tally,              \* calculate...: the tally dict
    voteset_pos,              \* calculate...: the voteset the loop is at
    sorted_borda_dict,        \* what load_file returned
    err,                      \* the error load_file raised, "none" if none
    err_line,                 \* the line number in its message, 0 if none
    err_mentions              \* the values its message is formatted with

vars == <<file, history, gui, pc, handle, ln1, lines_from_second, ln1_candidates,
          index_pos, lines_split, meta_cleaned_votes_list, final_tally,
          voteset_pos, sorted_borda_dict, err, err_line, err_mentions>>

\* The window after VoteCounterGUI.__init__: no path in the StringVar, the
\* label of create_widgets, an empty read-only Text widget.  events is the
\* list of the clicks so far, loads the number of calls of load_file,
\* uncaught whether an exception left a callback.
NoFileLabel == [text |-> "No file currently selected", name |-> <<>>]

NewGUI ==
    [selected_file_path |-> <<>>,
     label_file_selected |-> NoFileLabel,
     text_loaded_output |-> [kind |-> "empty"],
     text_state |-> "disabled",
     events |-> <<>>,
     loads |-> 0,
     uncaught |-> FALSE]

Init ==
    /\ IsFile(file)
    /\ history = <<>>
    /\ gui = NewGUI
    /\ pc = "load_file"
    /\ handle = "unopened"
    /\ ln1 = <<>>
    /\ lines_from_second = <<>>
    /\ ln1_candidates = <<>>
    /\ index_pos = 0
    /\ lines_split = 0
    /\ meta_cleaned_votes_list = <<>>
    /\ final_tally = <<>>
    /\ voteset_pos = 0
    /\ sorted_borda_dict = <<>>
    /\ err = "none"
    /\ err_line = 0
    /\ err_mentions = {}

(***************************************************************************)
(* The three functions load_file calls, on their arguments.                *)
(***************************************************************************)
Range(s) == {s[i] : i \in 1..Len(s)}

\* valid_first_line without the test for an empty name in the list.
valid_first_line_EmptyOnly(l) ==
    IF Len(l) = 0
    THEN [raised |-> "MalformedHeader", value |-> <<>>]
    ELSE [raised |-> "none", value |-> split(l)]

\* valid_first_line(ln1): the list of names, or the ValueError it raises.
valid_first_line(l) ==
    IF Len(l) = 0
    THEN [raised |-> "MalformedHeader", value |-> <<>>]
    ELSE LET candidates == split(l)
         IN  IF <<>> \in Range(candidates)
             THEN [raised |-> "MalformedHeader", value |-> <<>>]
             ELSE [raised |-> "none", value |-> candidates]

\* The pieces of a line that int() accepts, as integers.
ParsedPieces(line) ==
    LET pieces == split(line)
        good == SelectSeq(pieces, LAMBDA t : int(t).ok)
    IN  [i \in 1..Len(good) |-> int(good[i]).val]

\* check_vote_line with range(1, quantity_of_candidates) in the last test.
check_vote_line_ShortRange(line, quantity_of_candidates) ==
    LET pieces == split(line)
        ints == ParsedPieces(line)
    IN  IF Len(ints) # Len(pieces)
        THEN [raised |-> "MalformedBallot", value |-> <<>>]
        ELSE IF Len(ints) # quantity_of_candidates
        THEN [raised |-> "BallotLengthMismatch", value |-> <<>>]
        ELSE IF \E c \in 1..(quantity_of_candidates - 1) : c \notin Range(ints)
        THEN [raised |-> "IncompleteRanking", value |-> <<>>]
        ELSE [raised |-> "none", value |-> ints]

\* check_vote_line that passes over the pieces int() rejects.
check_vote_line_SkipBad(line, quantity_of_candidates) ==
    LET ints == ParsedPieces(line)
    IN  IF Len(ints) # quantity_of_candidates
        THEN [raised |-> "BallotLengthMismatch", value |-> <<>>]
        ELSE IF \E c \in 1..quantity_of_candidates : c \notin Range(ints)
        THEN [raised |-> "IncompleteRanking", value |-> <<>>]
        ELSE [raised |-> "none", value |-> ints]

\* check_vote_line without the comparison of the two lengths.
check_vote_line_NoLength(line, quantity_of_candidates) ==
    LET pieces == split(line)
        ints == ParsedPieces(line)
    IN  IF Len(ints) # Len(pieces)
        THEN [raised |-> "MalformedBallot", value |-> <<>>]
        ELSE IF \E c \in 1..quantity_of_candidates : c \notin Range(ints)
        THEN [raised |-> "IncompleteRanking", value |-> <<>>]
        ELSE [raised |-> "none", value |-> ints]

\* check_vote_line that tests every vote to lie in 1..n, instead of every
\* number of 1..n to be among the votes.
check_vote_line_VotesInRange(line, quantity_of_candidates) ==
    LET pieces == split(line)
        ints == ParsedPieces(line)
    IN  IF Len(ints) # Len(pieces)
        THEN [raised |-> "MalformedBallot", value |-> <<>>]
        ELSE IF Len(ints) # quantity_of_candidates
        THEN [raised |-> "BallotLengthMismatch", value |-> <<>>]
        ELSE IF \E i \in 1..Len(ints) : ints[i] \notin 1..quantity_of_candidates
        THEN [raised |-> "IncompleteRanking", value |-> <<>>]
        ELSE [raised |-> "none", value |-> ints]

\* One pass of the loop of check_votes_validity_and_export_to_list over a
\* line: line_ints_list, or the ValueError the pass raises.
\* check_vote_line with the test of the length moved before the loop that
\* parses the pieces.
check_vote_line_LengthFirst(line, quantity_of_candidates) ==
    LET line_without_semicolons_list == split(line)
        parsed == [i \in 1..Len(line_without_semicolons_list) |->
                      int(line_without_semicolons_list[i])]
        line_ints_list == [i \in 1..Len(parsed) |-> parsed[i].val]
    IN  IF Len(line_without_semicolons_list) # quantity_of_candidates
        THEN [raised |-> "BallotLengthMismatch", value |-> <<>>]
        ELSE IF \E i \in 1..Len(parsed) : ~parsed[i].ok
        THEN [raised |-> "MalformedBallot", value |-> <<>>]
        ELSE IF \E candidate_number \in 1..quantity_of_candidates :
                    candidate_number \notin Range(line_ints_list)
        THEN [raised |-> "IncompleteRanking", value |-> <<>>]
        ELSE [raised |-> "none", value |-> line_ints_list]

check_vote_line(line, quantity_of_candidates) ==
    LET line_without_semicolons_list == split(line)
        parsed == [i \in 1..Len(line_without_semicolons_list) |->
                      int(line_without_semicolons_list[i])]
        line_ints_list == [i \in 1..Len(parsed) |-> parsed[i].val]
    IN  IF \E i \in 1..Len(parsed) : ~parsed[i].ok
        THEN [raised |-> "MalformedBallot", value |-> <<>>]
        ELSE IF Len(line_ints_list) # quantity_of_candidates
        THEN [raised |-> "BallotLengthMismatch", value |-> <<>>]
        ELSE IF \E candidate_number \in 1..quantity_of_candidates :
                    candidate_number \notin Range(line_ints_list)
        THEN [raised |-> "IncompleteRanking", value |-> <<>>]
        ELSE [raised |-> "none", value |-> line_ints_list]

\* The line number counted from the header as line 0.
user_friendly_line_pos_OffByOne(index) == index + 1

\* The line number of the error messages, from the index of enumerate().
user_friendly_line_pos(index) == index + 2

\* final_tally = {candidate: 0 for candidate in ln1_candidates}
new_tally(candidates) ==
    DictFromItems([i \in 1..Len(candidates) |-> [key |-> candidates[i], val |-> 0]],
                  <<>>)

Min(a, b) == IF a <= b THEN a ELSE b

RECURSIVE TallyPairs(_, _, _, _, _)
\* The inner loop over zip(voteset, final_tally.keys()), from pair i on.
TallyPairs(d, voteset, keys, i, n) ==
    IF i > Min(Len(voteset), Len(keys)) THEN d
    ELSE TallyPairs(DictSet(d, keys[i], DictGet(d, keys[i]) + (n - voteset[i])),
                    voteset, keys, i + 1, n)

\* The tally with N points for the first rank: n - ranking + 1.
tally_voteset_OnePointMore(d, voteset, n) == TallyPairs(d, voteset, DictKeys(d), 1, n + 1)

\* The tally with = in the place of +=: the points of the voteset replace
\* the ones counted so far.
tally_voteset_Assign(d, voteset, n) ==
    [i \in 1..Len(d) |->
        [key |-> d[i].key,
         val |-> IF i <= Len(voteset) THEN n - voteset[i] ELSE d[i].val]]

\* One pass of the outer loop: final_tally after one voteset.
tally_voteset(d, voteset, n) == TallyPairs(d, voteset, DictKeys(d), 1, n)

\* The tally with a zip() that requires as many ranks as keys
\* (strict=True), which raises when the header repeats a name.
tally_raises_StrictZip(d, voteset) == Len(voteset) # Len(d)

\* The body of the try of the tally raises: the candidate of each pair is a
\* key of the dict, so the one statement that can raise is n - ranking,
\* for a ranking that is no number.
tally_raises(d, voteset) ==
    \E i \in 1..Min(Len(voteset), Len(d)) : voteset[i] \notin Int

\* The body of the try of the sort raises: the keys (-score, name) cannot
\* be made or compared when a score is no number.
sort_raises(d) == \E i \in 1..Len(d) : d[i].val \notin Int

RECURSIVE tally_all(_, _, _)
\* The outer loop over meta_cleaned_votes_list, from the tally d on.
tally_all(d, votes, n) ==
    IF votes = <<>> THEN d
    ELSE tally_all(tally_voteset(d, Head(votes), n), Tail(votes), n)

\* dict(sorted(final_tally.items(), key=lambda item: (-item[1], item[0])))
sort_tally(d) == DictFromItems(sorted(d), <<>>)

\* calculate_and_sort_borda_results as a function of its two arguments.
calculate_and_sort_borda_results(candidates, votes) ==
    sort_tally(tally_all(new_tally(candidates), votes, Len(candidates)))

(***************************************************************************)
(* load_file, step by step.                                                *)
(***************************************************************************)
\* The except clauses without the one for PermissionError: the clause for
\* IOError catches it.
load_file_except_NoPermissionClause(exc) ==
    CASE exc = "FileNotFoundError" -> "NotFound"
      [] IsOSError(exc) /\ exc # "FileNotFoundError" -> "IOFailure"
      [] OTHER -> exc

\* The except clauses of load_file: the error that leaves load_file when
\* exc is raised inside its try block.  An exception that is no OSError
\* passes through them as it is.
load_file_except(exc) ==
    CASE exc = "FileNotFoundError" -> "NotFound"
      [] exc = "PermissionError" -> "PermissionDenied"
      [] IsOSError(exc) /\ exc \notin {"FileNotFoundError", "PermissionError"} -> "IOFailure"
      [] OTHER -> exc

\* message_fields with a message for the unparsable vote line that has no
\* line number in it.
message_fields_NoLine(kind) ==
    CASE kind \in {"NotFound", "PermissionDenied"} -> {"filename"}
      [] kind = "IOFailure" -> {"filename", "cause"}
      [] kind \in {"BallotLengthMismatch", "IncompleteRanking"} -> {"line"}
      [] kind \in {"UnicodeDecodeError", "InternalError"} -> {"cause"}
      [] OTHER -> {}

\* The values the message of an error is formatted with: the filename of
\* load_file, the exception that was caught, the line number of the vote
\* line.  The message of a decoding error is the codec's own.
message_fields(kind) ==
    CASE kind \in {"NotFound", "PermissionDenied"} -> {"filename"}
      [] kind = "IOFailure" -> {"filename", "cause"}
      [] kind \in {"MalformedBallot", "BallotLengthMismatch", "IncompleteRanking"} -> {"line"}
      [] kind \in {"UnicodeDecodeError", "InternalError"} -> {"cause"}
      [] OTHER -> {}

Raise(kind, line) ==
    /\ pc' = "raised"
    /\ err' = kind
    /\ err_line' = line
    /\ err_mentions' = message_fields(kind)

\* with open(filename, 'r') as f: an open() that raises leaves no handle.
OpenFile ==
    /\ pc = "load_file"
    /\ LET exc == open_raises(file.status)
       IN  IF exc # "none"
           THEN /\ Raise(load_file_except(exc), 0)
                /\ UNCHANGED handle
           ELSE /\ handle' = "open"
                /\ pc' = "read_file"
                /\ UNCHANGED <<err, err_line, err_mentions>>
    /\ UNCHANGED <<file, history, gui, ln1, lines_from_second, ln1_candidates,
                   index_pos, lines_split, meta_cleaned_votes_list, final_tally,
                   voteset_pos, sorted_borda_dict>>

\* The reads on a file object that is closed by a call of close() after
\* the last read, not by a with statement: a read that raises skips it.
ReadFile_NoWith ==
    /\ pc = "read_file"
    /\ LET exc == read_raises(file.status)
       IN  IF exc # "none"
           THEN /\ Raise(load_file_except(exc), 0)
                /\ UNCHANGED <<ln1, lines_from_second, handle>>
           ELSE /\ ln1' = strip(file.header)
                /\ lines_from_second' =
                      [i \in 1..Len(file.lines) |-> strip(file.lines[i])]
                /\ pc' = "valid_first_line"
                /\ handle' = "closed"
                /\ UNCHANGED <<err, err_line, err_mentions>>
    /\ UNCHANGED <<file, history, gui, ln1_candidates, index_pos, lines_split,
                   meta_cleaned_votes_list, final_tally, voteset_pos,
                   sorted_borda_dict>>

\* The reads with a comprehension that leaves out the lines that are empty
\* once stripped (... for line in f.readlines() if line.strip()).
ReadFile_SkipBlank ==
    /\ pc = "read_file"
    /\ LET exc == read_raises(file.status)
       IN  IF exc # "none"
           THEN /\ Raise(load_file_except(exc), 0)
                /\ UNCHANGED <<ln1, lines_from_second>>
           ELSE /\ ln1' = strip(file.header)
                /\ lines_from_second' =
                      SelectSeq([i \in 1..Len(file.lines) |-> strip(file.lines[i])],
                                LAMBDA line : line # <<>>)
                /\ pc' = "valid_first_line"
                /\ UNCHANGED <<err, err_line, err_mentions>>
    /\ handle' = "closed"
    /\ UNCHANGED <<file, history, gui, ln1_candidates, index_pos, lines_split,
                   meta_cleaned_votes_list, final_tally, voteset_pos,
                   sorted_borda_dict>>

\* The body of the with statement: readline().strip(), then every other
\* line stripped.  The with statement closes f when the body is left, by
\* its end or by an exception.
ReadFile ==
    /\ pc = "read_file"
    /\ LET exc == read_raises(file.status)
       IN  IF exc # "none"
           THEN /\ Raise(load_file_except(exc), 0)
                /\ UNCHANGED <<ln1, lines_from_second>>
           ELSE /\ ln1' = strip(file.header)
                /\ lines_from_second' =
                      [i \in 1..Len(file.lines) |-> strip(file.lines[i])]
                /\ pc' = "valid_first_line"
                /\ UNCHANGED <<err, err_line, err_mentions>>
    /\ handle' = "closed"
    /\ UNCHANGED <<file, history, gui, ln1_candidates, index_pos, lines_split,
                   meta_cleaned_votes_list, final_tally, voteset_pos,
                   sorted_borda_dict>>

\* ValidFirstLine that goes on to the vote lines with whatever the split
\* of the header gives, without the tests of valid_first_line.
ValidFirstLine_NoAbort ==
    /\ pc = "valid_first_line"
    /\ ln1_candidates' = split(ln1)
    /\ pc' = "check_votes"
    /\ UNCHANGED <<file, history, gui, handle, ln1, lines_from_second, index_pos,
                   lines_split, meta_cleaned_votes_list, final_tally,
                   voteset_pos, sorted_borda_dict, err, err_line, err_mentions>>

\* The call of valid_first_line in load_file.
ValidFirstLine ==
    /\ pc = "valid_first_line"
    /\ LET r == valid_first_line(ln1)
       IN  IF r.raised # "none"
           THEN /\ Raise(r.raised, 0)
                /\ UNCHANGED ln1_candidates
           ELSE /\ ln1_candidates' = r.value
                /\ pc' = "check_votes"
                /\ UNCHANGED <<err, err_line, err_mentions>>
    /\ UNCHANGED <<file, history, gui, handle, ln1, lines_from_second, index_pos, lines_split,
                   meta_cleaned_votes_list, final_tally, voteset_pos,
                   sorted_borda_dict>>

\* CheckVotesEntry without the test for a file without vote lines: the
\* loop then runs over no line and the empty list is returned.
CheckVotesEntry_NoEmptyTest ==
    /\ pc = "check_votes"
    /\ pc' = IF lines_from_second = <<>> THEN "calculate" ELSE "vote_line"
    /\ index_pos' = 0
    /\ meta_cleaned_votes_list' = <<>>
    /\ UNCHANGED <<file, history, gui, handle, ln1, lines_from_second, ln1_candidates, lines_split,
                   final_tally, voteset_pos, sorted_borda_dict, err, err_line, err_mentions>>

\* The entry of check_votes_validity_and_export_to_list: the test for a
\* file without vote lines, and the locals of the loop.
CheckVotesEntry ==
    /\ pc = "check_votes"
    /\ IF lines_from_second = <<>>
       THEN Raise("NoBallots", 0)
       ELSE /\ pc' = "vote_line"
            /\ UNCHANGED <<err, err_line, err_mentions>>
    /\ index_pos' = 0
    /\ meta_cleaned_votes_list' = <<>>
    /\ UNCHANGED <<file, history, gui, handle, ln1, lines_from_second, ln1_candidates, lines_split,
                   final_tally, voteset_pos, sorted_borda_dict>>

\* One pass of the loop over enumerate(lines_from_second); after the last
\* line the function returns meta_cleaned_votes_list.
CheckVoteLine ==
    /\ pc = "vote_line"
    /\ index_pos < Len(lines_from_second)
    /\ LET r == check_vote_line(lines_from_second[index_pos + 1],
                                Len(ln1_candidates))
       IN  IF r.raised # "none"
           THEN /\ Raise(r.raised, user_friendly_line_pos(index_pos))
                /\ UNCHANGED <<index_pos, meta_cleaned_votes_list>>
           ELSE /\ meta_cleaned_votes_list' = Append(meta_cleaned_votes_list, r.value)
                /\ index_pos' = index_pos + 1
                /\ pc' = IF index_pos + 1 = Len(lines_from_second)
                         THEN "calculate" ELSE "vote_line"
                /\ UNCHANGED <<err, err_line, err_mentions>>
    /\ lines_split' = lines_split + 1
    /\ UNCHANGED <<file, history, gui, handle, ln1, lines_from_second, ln1_candidates, final_tally,
                   voteset_pos, sorted_borda_dict>>

\* CalculateEntry with a tally that is made once and kept by the processor
\* from one call to the next.
CalculateEntry_KeepTally ==
    /\ pc = "calculate"
    /\ final_tally' = IF final_tally = <<>> THEN new_tally(ln1_candidates)
                      ELSE final_tally
    /\ voteset_pos' = 0
    /\ pc' = "tally"
    /\ UNCHANGED <<file, history, gui, handle, ln1, lines_from_second, ln1_candidates,
                   index_pos, lines_split, meta_cleaned_votes_list,
                   sorted_borda_dict, err, err_line, err_mentions>>

\* The entry of calculate_and_sort_borda_results: n and the zeroed tally.
CalculateEntry ==
    /\ pc = "calculate"
    /\ final_tally' = new_tally(ln1_candidates)
    /\ voteset_pos' = 0
    /\ pc' = "tally"
    /\ UNCHANGED <<file, history, gui, handle, ln1, lines_from_second, ln1_candidates, index_pos,
                   lines_split, meta_cleaned_votes_list, sorted_borda_dict,
                   err, err_line, err_mentions>>

\* One pass of the loop over meta_cleaned_votes_list.
TallyVoteset ==
    /\ pc = "tally"
    /\ voteset_pos < Len(meta_cleaned_votes_list)
    /\ IF tally_raises(final_tally, meta_cleaned_votes_list[voteset_pos + 1])
       THEN /\ Raise("InternalError", 0)
            /\ UNCHANGED <<final_tally, voteset_pos>>
       ELSE /\ final_tally' = tally_voteset(final_tally,
                                            meta_cleaned_votes_list[voteset_pos + 1],
                                            Len(ln1_candidates))
            /\ voteset_pos' = voteset_pos + 1
            /\ UNCHANGED <<pc, err, err_line, err_mentions>>
    /\ UNCHANGED <<file, history, gui, handle, ln1, lines_from_second,
                   ln1_candidates, index_pos, lines_split,
                   meta_cleaned_votes_list, sorted_borda_dict>>

\* The sort, and the return of the sorted dict through load_file.
SortAndReturn ==
    /\ pc = "tally"
    /\ voteset_pos = Len(meta_cleaned_votes_list)
    /\ IF sort_raises(final_tally)
       THEN /\ Raise("InternalError", 0)
            /\ UNCHANGED sorted_borda_dict
       ELSE /\ sorted_borda_dict' = sort_tally(final_tally)
            /\ pc' = "returned"
            /\ UNCHANGED <<err, err_line, err_mentions>>
    /\ UNCHANGED <<file, history, gui, handle, ln1, lines_from_second,
                   ln1_candidates, index_pos, lines_split,
                   meta_cleaned_votes_list, final_tally, voteset_pos>>

Next ==
    \/ OpenFile
    \/ ReadFile
    \/ ValidFirstLine
    \/ CheckVotesEntry
    \/ CheckVoteLine
    \/ CalculateEntry
    \/ TallyVoteset
    \/ SortAndReturn

Spec == Init /\ [][Next]_vars

(***************************************************************************)
(* Several loads on one processor.  BordaVoteProcessor has no attribute,   *)
(* and a call of load_file starts with no local bound: the model keeps     *)
(* the values the locals had when the call before ended, and a step that   *)
(* read one of them before assigning it would show in the outcome.         *)
(***************************************************************************)
\* What the caller of load_file gets: the dict that is returned, or the
\* error that is raised and its message.
Outcome ==
    [result |-> sorted_borda_dict, err |-> err, err_line |-> err_line,
     err_mentions |-> err_mentions]

InitSession ==
    /\ file \in SessionFiles
    /\ history = <<>>
    /\ gui = NewGUI
    /\ pc = "load_file"
    /\ handle = "unopened"
    /\ ln1 = <<>>
    /\ lines_from_second = <<>>
    /\ ln1_candidates = <<>>
    /\ index_pos = 0
    /\ lines_split = 0
    /\ meta_cleaned_votes_list = <<>>
    /\ final_tally = <<>>
    /\ voteset_pos = 0
    /\ sorted_borda_dict = <<>>
    /\ err = "none"
    /\ err_line = 0
    /\ err_mentions = {}

\* The next call of load_file on the same processor, after the call before
\* has returned or raised, with the same path or another.
LoadAgain ==
    /\ pc \in {"returned", "raised"}
    /\ Len(history) < MaxLoads - 1
    /\ history' = Append(history, [file |-> file, outcome |-> Outcome])
    /\ file' \in SessionFiles
    /\ pc' = "load_file"
    /\ handle' = "unopened"
    /\ lines_split' = 0
    /\ sorted_borda_dict' = <<>>
    /\ err' = "none"
    /\ err_line' = 0
    /\ err_mentions' = {}
    /\ UNCHANGED <<gui, ln1, lines_from_second, ln1_candidates, index_pos,
                   meta_cleaned_votes_list, final_tally, voteset_pos>>

NextSession ==
    \/ Next
    \/ LoadAgain

SpecSession == InitSession /\ [][NextSession]_vars

(***************************************************************************)
(* The window: the two buttons of VoteCounterGUI and their callbacks.  The *)
(* event loop runs one callback at a time, to its end.                     *)
(***************************************************************************)
\* The paths the file dialogue can return, as their components, and the
\* files at them; two of them have the same basename.
HomeVotes == <<"home", "votes.txt">>
TmpVotes == <<"tmp", "votes.txt">>
HomeHeader == <<"home", "header.txt">>
HomeBallot == <<"home", "ballot.txt">>
HomeGone == <<"home", "gone.txt">>
HomeBytes == <<"home", "bytes.txt">>

GUIPaths == {HomeVotes, TmpVotes, HomeHeader, HomeBallot, HomeGone, HomeBytes}

FileSystem(path) ==
    CASE path = HomeVotes ->
            TextFile(Join(<<Carol, Bob, Alice>>),
                     <<(<<"1", ";", "2", ";", "3">>), (<<"3", ";", "2", ";", "1">>)>>)
      [] path = TmpVotes ->
            TextFile(<<"A", ";", "B", ";", "C">>,
                     [i \in 1..5 |-> <<"3", ";", "2", ";", "1">>])
      [] path = HomeHeader -> TextFile(<<"A", ";", ";", "B">>, <<(<<"1", ";", "2">>)>>)
      [] path = HomeBallot -> TextFile(<<"A", ";", "B">>, <<(<<"1", ";", "x">>)>>)
      [] path = HomeGone -> [EmptyFile EXCEPT !.status = "missing"]
      [] path = HomeBytes ->
            [TextFile(<<"A">>, <<(<<"1">>)>>) EXCEPT !.status = "undecodable"]
      [] OTHER -> [EmptyFile EXCEPT !.status = "missing"]

\* os.path.basename(filename)
basename(filename) == filename[Len(filename)]

DecimalDigit == <<"0", "1", "2", "3", "4", "5", "6", "7", "8", "9">>

RECURSIVE str(_)
\* The text of a score in an f-string: its decimal digits.
str(n) ==
    IF n < 10 THEN <<DecimalDigit[n + 1]>>
    ELSE str(n \div 10) \o <<DecimalDigit[(n % 10) + 1]>>

\* output_list taken from the last entry of the dict to the first.
output_list_Reversed(d) ==
    [i \in 1..Len(d) |->
        d[Len(d) + 1 - i].key \o <<":", " ">> \o str(d[Len(d) + 1 - i].val)]

\* The loop over sorted_borda_dict.items(): f"{candidate}: {score}".
output_list(d) == [i \in 1..Len(d) |-> d[i].key \o <<":", " ">> \o str(d[i].val)]

RECURSIVE JoinLines(_)
\* '\n'.join(output_list)
JoinLines(lines) ==
    IF lines = <<>> THEN <<>>
    ELSE IF Len(lines) = 1 THEN lines[1]
    ELSE lines[1] \o <<NL>> \o JoinLines(Tail(lines))

\* The message of a successful load: the basename, the fixed headings
\* (left out here), the lines of the result.
output_message(filename, d) ==
    [kind |-> "results", basename |-> basename(filename),
     body |-> JoinLines(output_list(d))]

\* type(e).__name__: the class of the exception load_file raises for each
\* error; all the errors of the validators are ValueError.
type_name(kind) ==
    CASE kind = "NotFound" -> "FileNotFoundError"
      [] kind = "PermissionDenied" -> "PermissionError"
      [] kind = "IOFailure" -> "OSError"
      [] kind = "UnicodeDecodeError" -> "UnicodeDecodeError"
      [] OTHER -> "ValueError"

\* A handler that has except ValueError in the place of except Exception.
caught_by_handler_ValueErrorOnly(name) == name \in {"ValueError", "UnicodeDecodeError"}

\* except Exception: every class of exception load_file can raise derives
\* from Exception.
caught_by_handler(name) ==
    name \in {"FileNotFoundError", "PermissionError", "OSError", "ValueError",
              "UnicodeDecodeError"}

\* The text of the except clause: the name of the class and str(e).
error_message(kind, line, mentions) ==
    [kind |-> "error", name |-> type_name(kind),
     details |-> [err |-> kind, line |-> line, mentions |-> mentions]]

\* The text for a click on 'Load file' before a file was selected.
NoFilePrompt == [kind |-> "prompt"]

\* display_in_output_text: the widget is made editable, its text is
\* replaced by the message, it is made read-only again.
display_in_output_text(g, message_text) ==
    [g EXCEPT !.text_loaded_output = message_text, !.text_state = "disabled"]

InitGUI ==
    /\ file = EmptyFile
    /\ history = <<>>
    /\ gui = NewGUI
    /\ pc = "idle"
    /\ handle = "unopened"
    /\ ln1 = <<>>
    /\ lines_from_second = <<>>
    /\ ln1_candidates = <<>>
    /\ index_pos = 0
    /\ lines_split = 0
    /\ meta_cleaned_votes_list = <<>>
    /\ final_tally = <<>>
    /\ voteset_pos = 0
    /\ sorted_borda_dict = <<>>
    /\ err = "none"
    /\ err_line = 0
    /\ err_mentions = {}

\* OpenFileDialog that stores what askopenfilename returned without the
\* test for a file that was chosen.
OpenFileDialog_SetAlways ==
    /\ pc = "idle"
    /\ Len(gui.events) < MaxEvents
    /\ \E filename \in GUIPaths \cup {<<>>} :
          gui' = [gui EXCEPT !.selected_file_path = filename,
                             !.label_file_selected =
                                 [text |-> "File selected: ",
                                  name |-> IF filename = <<>> THEN <<>>
                                           ELSE basename(filename)],
                             !.events = Append(@, IF filename # <<>> THEN "choose"
                                                  ELSE "cancel")]
    /\ UNCHANGED <<file, history, pc, handle, ln1, lines_from_second,
                   ln1_candidates, index_pos, lines_split,
                   meta_cleaned_votes_list, final_tally, voteset_pos,
                   sorted_borda_dict, err, err_line, err_mentions>>

\* A click on 'Find my file': askopenfilename returns the path that was
\* chosen, or the empty string when the dialogue is cancelled.
OpenFileDialog ==
    /\ pc = "idle"
    /\ Len(gui.events) < MaxEvents
    /\ \E filename \in GUIPaths \cup {<<>>} :
          gui' = IF filename # <<>>
                 THEN [gui EXCEPT !.selected_file_path = filename,
                                  !.label_file_selected =
                                      [text |-> "File selected: ",
                                       name |-> basename(filename)],
                                  !.events = Append(@, "choose")]
                 ELSE [gui EXCEPT !.events = Append(@, "cancel")]
    /\ UNCHANGED <<file, history, pc, handle, ln1, lines_from_second,
                   ln1_candidates, index_pos, lines_split,
                   meta_cleaned_votes_list, final_tally, voteset_pos,
                   sorted_borda_dict, err, err_line, err_mentions>>

\* HandleLoadFileClick without the test for a path that is empty: load_file
\* is called with whatever the StringVar holds.
HandleLoadFileClick_NoPathTest ==
    /\ pc = "idle"
    /\ Len(gui.events) < MaxEvents
    /\ gui' = [gui EXCEPT !.events = Append(@, "load"), !.loads = @ + 1]
    /\ file' = FileSystem(gui.selected_file_path)
    /\ pc' = "load_file"
    /\ handle' = "unopened"
    /\ lines_split' = 0
    /\ sorted_borda_dict' = <<>>
    /\ err' = "none"
    /\ err_line' = 0
    /\ err_mentions' = {}
    /\ UNCHANGED <<history, ln1, lines_from_second, ln1_candidates, index_pos,
                   meta_cleaned_votes_list, final_tally, voteset_pos>>

\* A click on 'Load file', up to the call of load_file: without a path the
\* prompt is displayed and the callback returns.
HandleLoadFileClick ==
    /\ pc = "idle"
    /\ Len(gui.events) < MaxEvents
    /\ LET filename == gui.selected_file_path
           g == [gui EXCEPT !.events = Append(@, "load")]
       IN  IF filename = <<>>
           THEN /\ gui' = display_in_output_text(g, NoFilePrompt)
                /\ UNCHANGED <<file, pc, handle, lines_split, sorted_borda_dict,
                               err, err_line, err_mentions>>
           ELSE /\ gui' = [g EXCEPT !.loads = @ + 1]
                /\ file' = FileSystem(filename)
                /\ pc' = "load_file"
                /\ handle' = "unopened"
                /\ lines_split' = 0
                /\ sorted_borda_dict' = <<>>
                /\ err' = "none"
                /\ err_line' = 0
                /\ err_mentions' = {}
    /\ UNCHANGED <<history, ln1, lines_from_second, ln1_candidates, index_pos,
                   meta_cleaned_votes_list, final_tally, voteset_pos>>

\* The rest of the callback, after load_file has returned or raised.
DisplayOutcome ==
    /\ pc \in {"returned", "raised"}
    /\ gui' = IF pc = "returned"
              THEN display_in_output_text(
                       gui, output_message(gui.selected_file_path, sorted_borda_dict))
              ELSE IF caught_by_handler(type_name(err))
              THEN display_in_output_text(
                       gui, error_message(err, err_line, err_mentions))
              ELSE [gui EXCEPT !.uncaught = TRUE]
    /\ pc' = "idle"
    /\ UNCHANGED <<file, history, handle, ln1, lines_from_second, ln1_candidates,
                   index_pos, lines_split, meta_cleaned_votes_list, final_tally,
                   voteset_pos, sorted_borda_dict, err, err_line, err_mentions>>

NextGUI ==
    \/ OpenFileDialog
    \/ HandleLoadFileClick
    \/ Next
    \/ DisplayOutcome

SpecGUI == InitGUI /\ [][NextGUI]_vars

(***************************************************************************)
(* Vocabulary of the properties.  These definitions describe the file and  *)
(* the outcome in their own terms, not through the functions above.        *)
(***************************************************************************)
Returned == pc = "returned"
Raised == pc = "raised"
Terminated == Returned \/ Raised

\* The reads of the file succeeded.
FileWasRead == file.status = "ok" /\ handle = "closed"

\* The text has an empty piece between, before or after its semicolons:
\* it is empty, starts or ends with a semicolon, or has two in a row.
HasEmptyPiece(l) ==
    \/ l = <<>>
    \/ l[1] = SEMI
    \/ l[Len(l)] = SEMI
    \/ \E i \in 1..(Len(l) - 1) : l[i] = SEMI /\ l[i + 1] = SEMI

\* The number of pieces of a text: one more than its semicolons.
PieceCount(l) == Cardinality({i \in 1..Len(l) : l[i] = SEMI}) + 1

\* Some piece of the line is no base-10 integer to int().
HasUnparsablePiece(l) ==
    LET pieces == split(l) IN \E i \in 1..Len(pieces) : ~int(pieces[i]).ok

\* The integers of a line all of whose pieces parse.
LineInts(l) ==
    LET pieces == split(l) IN [i \in 1..Len(pieces) |-> int(pieces[i]).val]

\* v occurs exactly once in the sequence.
OccursOnce(v, q) == Cardinality({i \in 1..Len(q) : q[i] = v}) = 1

\* q is a permutation of 1..n.
IsPermutation(q, n) == Len(q) = n /\ \A v \in 1..n : OccursOnce(v, q)

\* The line is a complete ranking of n candidates.
IsCompleteRanking(l, n) == ~HasUnparsablePiece(l) /\ IsPermutation(LineInts(l), n)

\* The header was accepted and it has n names.
HeaderAccepted == ~HasEmptyPiece(ln1)
N == PieceCount(ln1)

\* Line k after the header (1-based) is the first one that is no complete
\* ranking: the validator stops at it.
FirstBadLine(k) ==
    /\ HeaderAccepted
    /\ k \in 1..Len(lines_from_second)
    /\ ~IsCompleteRanking(lines_from_second[k], N)
    /\ \A j \in 1..(k - 1) : IsCompleteRanking(lines_from_second[j], N)

RECURSIVE SumSeq(_)
SumSeq(q) == IF q = <<>> THEN 0 ELSE Head(q) + SumSeq(Tail(q))

\* The Borda points of header position i over all the ballots.
PositionPoints(i) ==
    SumSeq([b \in 1..Len(meta_cleaned_votes_list) |->
               Len(ln1_candidates) - meta_cleaned_votes_list[b][i]])

\* s <= t in code point order, stated without recursion: the texts are
\* equal, or at the first place where they differ s has ended or has the
\* smaller code point.
NameLeq(s, t) ==
    \/ s = t
    \/ \E k \in 1..Len(t) :
          /\ Len(s) >= k - 1
          /\ \A j \in 1..(k - 1) : s[j] = t[j]
          /\ (Len(s) = k - 1 \/ ord[s[k]] < ord[t[k]])

(***************************************************************************)
(* The properties.                                                         *)
(***************************************************************************)

\* C1: for every accepted file, the score returned for the candidate at
\* header position i is the sum over all the ballots of (N - ballot[i]).
\* The code violates it when a name occurs twice in the header: the dict
\* has fewer keys than the header has positions and zip() pairs the ranks
\* with the keys, not with the positions.
C1_ScoreOfEveryPosition ==
    Returned =>
        \A i \in 1..Len(ln1_candidates) :
            /\ DictHas(sorted_borda_dict, ln1_candidates[i])
            /\ DictGet(sorted_borda_dict, ln1_candidates[i]) = PositionPoints(i)

\* C2: for every accepted file every score is a non-negative integer and
\* the scores add up to M * N * (N - 1) / 2.  The code violates the sum
\* for a header with a repeated name (the ranks of the positions that zip()
\* drops are never credited).
C2_ScoresSumToBordaTotal ==
    Returned =>
        LET scores == [i \in 1..Len(sorted_borda_dict) |-> sorted_borda_dict[i].val]
            m == Len(meta_cleaned_votes_list)
            n == Len(ln1_candidates)
        IN  /\ \A i \in 1..Len(scores) : scores[i] \in Nat
            /\ 2 * SumSeq(scores) = m * n * (n - 1)

\* C3: the returned mapping is ordered: of two adjacent entries the first
\* has the strictly greater score, or the scores are equal and the first
\* name is less than or equal to the second in code point order.
C3_ResultIsSorted ==
    Returned =>
        \A i \in 1..(Len(sorted_borda_dict) - 1) :
            LET a == sorted_borda_dict[i]
                b == sorted_borda_dict[i + 1]
            IN  \/ a.val > b.val
                \/ a.val = b.val /\ NameLeq(a.key, b.key)

\* Scenario A: Alice;Bob;Carol (here written Carol;Bob;Alice in the file,
\* so that the sort has to reorder) with 1;2;3 and 3;2;1 returns
\* Alice=2, Bob=2, Carol=2 in that order.
C3_Witness ==
    /\ Returned
    /\ ln1_candidates = <<Carol, Bob, Alice>>
    /\ sorted_borda_dict = << [key |-> Alice, val |-> 2], [key |-> Bob, val |-> 2],
                              [key |-> Carol, val |-> 2] >>

\* C4: the validator returns a ballot set only if every line after the
\* header parses to exactly N integers holding each of 1..N exactly once,
\* and the ballot set is those integers; no list with a repeated,
\* out-of-range, zero or negative rank is ever in the ballot set.
C4_OnlyPermutationsReachTally ==
    /\ \A k \in 1..Len(meta_cleaned_votes_list) :
          IsPermutation(meta_cleaned_votes_list[k], N)
    /\ pc \in {"calculate", "tally", "returned"} =>
          /\ Len(meta_cleaned_votes_list) = Len(lines_from_second)
          /\ \A k \in 1..Len(lines_from_second) :
                /\ IsCompleteRanking(lines_from_second[k], N)
                /\ meta_cleaned_votes_list[k] = LineInts(lines_from_second[k])

\* The validator has returned two ballots of two ranks.
C4_Witness ==
    /\ pc = "calculate"
    /\ meta_cleaned_votes_list = << <<1, 2>>, <<2, 1>> >>

\* C5: valid_first_line raises MalformedHeader exactly when the trimmed
\* header is empty or has an empty piece (leading, trailing or doubled
\* semicolon); otherwise it returns the pieces in their order: written
\* with semicolons between them they are the header, and none of them is
\* empty or holds a semicolon.
C5_HeaderValidation ==
    (pc \notin {"load_file", "read_file", "valid_first_line"} /\ FileWasRead) =>
        IF HasEmptyPiece(ln1)
        THEN Raised /\ err = "MalformedHeader"
        ELSE /\ err # "MalformedHeader"
             /\ Join(ln1_candidates) = ln1
             /\ \A i \in 1..Len(ln1_candidates) :
                   ln1_candidates[i] # <<>> /\ SEMI \notin Range(ln1_candidates[i])

\* Scenario C: the header A;;B raises MalformedHeader.
C5_Witness ==
    /\ Raised
    /\ err = "MalformedHeader"
    /\ ln1 = <<"A", ";", ";", "B">>

\* C6: when the header is valid and no line follows it the validator
\* raises NoBallots, before any line is split; NoBallots is never raised
\* when a line follows the header.
C6_NoBallots ==
    /\ err = "NoBallots" =>
          /\ Raised
          /\ HeaderAccepted
          /\ file.lines = <<>>
          /\ lines_split = 0
    /\ (HeaderAccepted /\ file.lines = <<>>
            /\ pc \notin {"load_file", "read_file", "valid_first_line", "check_votes"}) =>
          Raised /\ err = "NoBallots"

\* Scenario E: the header A;B and no line after it.
C6_Witness ==
    /\ Raised
    /\ err = "NoBallots"
    /\ ln1 = <<"A", ";", "B">>

\* C7: when the validator comes to a line (the header was accepted, the
\* lines before it are complete rankings) of which some piece does not
\* parse as a base-10 integer, the load fails with MalformedBallot; so it
\* does for an empty line and for a leading, trailing or doubled semicolon.
C7_UnparsablePieceIsMalformedBallot ==
    Terminated =>
        \A k \in 1..Len(lines_from_second) :
            (/\ FirstBadLine(k)
             /\ \/ HasUnparsablePiece(lines_from_second[k])
                \/ HasEmptyPiece(lines_from_second[k]))
                => Raised /\ err = "MalformedBallot"

\* A doubled semicolon in the second line after a complete ranking.
C7_Witness ==
    /\ Raised
    /\ err = "MalformedBallot"
    /\ ln1 = <<"A", ";", "B">>
    /\ lines_from_second = << <<"2", ";", "1">>, <<"1", ";", ";", "2">> >>

\* C8: when the validator comes to a line whose pieces all parse and whose
\* number of integers differs from N, the load fails with
\* BallotLengthMismatch.
C8_WrongLengthIsLengthMismatch ==
    Terminated =>
        \A k \in 1..Len(lines_from_second) :
            (/\ FirstBadLine(k)
             /\ ~HasUnparsablePiece(lines_from_second[k])
             /\ PieceCount(lines_from_second[k]) # N)
                => Raised /\ err = "BallotLengthMismatch"

\* Scenario D: the header A;B;C with the ballot 1;2.
C8_Witness ==
    /\ Raised
    /\ err = "BallotLengthMismatch"
    /\ ln1 = <<"A", ";", "B", ";", "C">>
    /\ lines_from_second = << <<"1", ";", "2">> >>

\* C9: when the validator comes to a line that parses to exactly N
\* integers among which some value of 1..N is absent, the load fails with
\* IncompleteRanking.
C9_MissingRankIsIncompleteRanking ==
    Terminated =>
        \A k \in 1..Len(lines_from_second) :
            (/\ FirstBadLine(k)
             /\ ~HasUnparsablePiece(lines_from_second[k])
             /\ PieceCount(lines_from_second[k]) = N
             /\ \E v \in 1..N : v \notin Range(LineInts(lines_from_second[k])))
                => Raised /\ err = "IncompleteRanking"

\* Scenario B: the header A;B with the ballot 1;1 fails at line 2.
C9_Witness ==
    /\ Raised
    /\ err = "IncompleteRanking"
    /\ err_line = 2
    /\ ln1 = <<"A", ";", "B">>
    /\ lines_from_second = << <<"1", ";", "1">> >>

\* C10: a MalformedBallot, BallotLengthMismatch or IncompleteRanking error
\* reports the file line number of the offending line: the line with
\* 0-based index k - 1 among the lines after the header is reported as
\* line (k - 1) + 2, and it is the first line that is no complete ranking.
C10_ErrorLineNumber ==
    err \in {"MalformedBallot", "BallotLengthMismatch", "IncompleteRanking"} =>
        /\ Raised
        /\ \E k \in 1..Len(lines_from_second) :
              FirstBadLine(k) /\ err_line = (k - 1) + 2

\* An error in the second line after the header, reported as line 3.
C10_Witness ==
    /\ Raised
    /\ err = "BallotLengthMismatch"
    /\ err_line = 3
    /\ Len(lines_from_second) = 2

\* The first of the three tests the line fails, in the order parse,
\* length, completeness.
EarliestFailure(l, n) ==
    IF HasUnparsablePiece(l) THEN "MalformedBallot"
    ELSE IF PieceCount(l) # n THEN "BallotLengthMismatch"
    ELSE "IncompleteRanking"

\* C11: the validator is fail-fast in a fixed order: the error of a load
\* whose header was accepted is the one of the first line that is no
\* complete ranking, whatever the lines after it hold, and of that line it
\* is the first failure in the order parse (MalformedBallot), length
\* (BallotLengthMismatch), completeness (IncompleteRanking); the later
\* failures of the line and the later lines are never reported.
C11_FailFastOrder ==
    Terminated =>
        \A k \in 1..Len(lines_from_second) :
            FirstBadLine(k) =>
                /\ Raised
                /\ err = EarliestFailure(lines_from_second[k], N)
                /\ err_line = k + 1
                /\ index_pos = k - 1
                /\ lines_split = k

\* The first line after A;B has a doubled semicolon (no integer, and three
\* pieces for two names), the second one repeats a rank: only the
\* MalformedBallot of line 2 is reported.
C11_Witness ==
    /\ Raised
    /\ err = "MalformedBallot"
    /\ err_line = 2
    /\ ln1 = <<"A", ";", "B">>
    /\ lines_from_second = << <<"1", ";", ";", "2">>, <<"1", ";", "1">> >>

\* C12: the stages run in the order Line Reader, Header Validator, Ballot
\* Validator, Tally Engine and the first failing stage ends the load: a
\* file that was read and whose header is malformed fails with
\* MalformedHeader whatever its lines are (no line is ever split, no
\* ballot kept); the tally exists only when the header was accepted and
\* every line is a complete ranking; a load that failed has no tally and
\* returns no result.
C12_StagesInOrder ==
    /\ pc \notin {"load_file", "read_file"} /\ err \notin {"NotFound", "PermissionDenied", "IOFailure", "UnicodeDecodeError"}
          => FileWasRead
    /\ (FileWasRead /\ HasEmptyPiece(ln1) /\ pc # "valid_first_line") =>
          /\ Raised
          /\ err = "MalformedHeader"
          /\ ln1_candidates = <<>>
    /\ (lines_split > 0 \/ meta_cleaned_votes_list # <<>>
            \/ pc \in {"check_votes", "vote_line"}) =>
          FileWasRead /\ HeaderAccepted /\ ln1_candidates # <<>>
    /\ (final_tally # <<>> \/ pc \in {"calculate", "tally", "returned"}) =>
          /\ FileWasRead
          /\ HeaderAccepted
          /\ lines_from_second # <<>>
          /\ lines_split = Len(lines_from_second)
          /\ \A k \in 1..Len(lines_from_second) :
                IsCompleteRanking(lines_from_second[k], N)
          /\ err = "none"
    /\ Raised => (err # "none" /\ final_tally = <<>> /\ sorted_borda_dict = <<>>)
    /\ sorted_borda_dict # <<>> => Returned

\* The header "A;" fails with MalformedHeader although the line after it
\* is no ballot either: the line was never looked at.
C12_Witness ==
    /\ Raised
    /\ err = "MalformedHeader"
    /\ ln1 = <<"A", ";">>
    /\ lines_from_second = << <<"1", ";", "1">> >>
    /\ lines_split = 0

\* Nothing of the file came out of the load: no header, no line, no
\* candidate, no ballot, no result.
NothingReturned ==
    /\ ln1 = <<>>
    /\ lines_from_second = <<>>
    /\ ln1_candidates = <<>>
    /\ meta_cleaned_votes_list = <<>>
    /\ final_tally = <<>>
    /\ sorted_borda_dict = <<>>

\* C13: when the file cannot be read load_file fails with NotFound if
\* nothing is at the path, with PermissionDenied if the process may not
\* read it, with IOFailure for another fault of the operating system at
\* open() or at a read; the message holds the path load_file was called
\* with, and nothing of the file is returned.
C13_UnreadableFile ==
    /\ (file.status = "missing" /\ pc # "load_file") =>
          Raised /\ err = "NotFound"
    /\ (file.status = "no_permission" /\ pc # "load_file") =>
          Raised /\ err = "PermissionDenied"
    /\ (file.status = "open_fault" /\ pc # "load_file") =>
          Raised /\ err = "IOFailure"
    /\ (file.status = "read_fault" /\ pc \notin {"load_file", "read_file"}) =>
          Raised /\ err = "IOFailure"
    /\ err \in {"NotFound", "PermissionDenied", "IOFailure"} =>
          /\ Raised
          /\ file.status \in {"missing", "no_permission", "open_fault", "read_fault"}
          /\ "filename" \in err_mentions
          /\ NothingReturned

\* A path the process may not read.
C13_Witness ==
    /\ Raised
    /\ err = "PermissionDenied"
    /\ file.status = "no_permission"
    /\ err_mentions = {"filename"}

\* C14: when the bytes of the file cannot be decoded load_file fails with
\* IOFailure, and the message holds the cause and the path.  The code
\* violates it: the UnicodeDecodeError of the read is a ValueError, none
\* of the except clauses catches it, and it leaves load_file as it is,
\* with the message of the codec, which does not name the path.
C14_DecodeErrorIsIOFailure ==
    (file.status = "undecodable" /\ Terminated) =>
        /\ Raised
        /\ err = "IOFailure"
        /\ {"filename", "cause"} \subseteq err_mentions

\* C15: the file object is closed on every way out of load_file on which
\* it was opened (the return, a failed read, a failure of a validator),
\* and it is closed before the header is validated; when open() itself
\* fails there is no file object.
C15_HandleClosed ==
    /\ handle = "open" => pc = "read_file"
    /\ pc = "read_file" => handle = "open"
    /\ pc \in {"valid_first_line", "check_votes", "vote_line", "calculate",
                "tally", "returned"} => handle = "closed"
    /\ Raised =>
          IF open_raises(file.status) # "none"
          THEN handle = "unopened"
          ELSE handle = "closed"

\* A read failed after open() succeeded: the file object is closed when
\* the error leaves load_file.
C15_Witness ==
    /\ Raised
    /\ file.status = "read_fault"
    /\ err = "IOFailure"
    /\ handle = "closed"

\* C16: load_file keeps nothing from one call to the next: whatever was
\* loaded before on the processor (files that were accepted or rejected,
\* the same file or others), the outcome of a load of a file is the
\* outcome every other load of that file on the processor had, the first
\* one, on the fresh processor, included: the same dict in the same
\* order, or the same error with the same message.
C16_NoStateBetweenLoads ==
    Terminated =>
        \A i \in 1..Len(history) :
            history[i].file = file => history[i].outcome = Outcome

\* A file is accepted on the fresh processor, another load fails, and the
\* first file is accepted again with the result it had.
C16_Witness ==
    /\ Returned
    /\ Len(history) = 2
    /\ history[1].file = file
    /\ history[1].outcome.result = sorted_borda_dict
    /\ sorted_borda_dict # <<>>
    /\ history[2].outcome.err # "none"

\* The text without the line terminators at its end.
WithoutTerminator(l) ==
    LET kept == {i \in 1..Len(l) : \E j \in i..Len(l) : l[j] # NL}
    IN  SubSeq(l, 1, Cardinality(kept))

\* The text between the first and the last character of l that is no
\* whitespace, both included; the empty text if there is none.
BetweenWhitespace(l) ==
    LET solid == {i \in 1..Len(l) : ~IsSpace(l[i])}
    IN  IF solid = {} THEN <<>>
        ELSE SubSeq(l, CHOOSE i \in solid : \A j \in solid : i <= j,
                       CHOOSE i \in solid : \A j \in solid : j <= i)

\* The names of the result, in its order.
ResultNames == [i \in 1..Len(sorted_borda_dict) |-> sorted_borda_dict[i].key]

\* C17 as the specification has it: the header loses its trailing line
\* terminator and nothing else, so the candidate names are the pieces of
\* the first line as it is in the file, with the whitespace before the
\* first name and after the last one, and the returned names are those.
\* The code strips the whole line: " A;B" gives the names "A" and "B".
C17_HeaderKeepsAllWhitespace ==
    (FileWasRead /\ pc \in {"check_votes", "vote_line", "calculate", "tally",
                             "returned"}) =>
        /\ Join(ln1_candidates) = WithoutTerminator(file.header)
        /\ Returned => Range(ResultNames) = Range(split(WithoutTerminator(file.header)))

\* C17, amended: the header is stripped of the whitespace at its two ends
\* (before the first name and after the last one, the line terminator
\* included) and of nothing else: the whitespace inside a name, after a
\* name that is not the last and before a name that is not the first is
\* in the candidate names and in the returned names, and names that tie
\* are returned in the code point order of the names with their
\* whitespace.
C17_HeaderStrippedAtItsEnds ==
    (FileWasRead /\ pc \in {"check_votes", "vote_line", "calculate", "tally",
                             "returned"}) =>
        /\ Join(ln1_candidates) = BetweenWhitespace(file.header)
        /\ Returned =>
              /\ Range(ResultNames) = Range(split(BetweenWhitespace(file.header)))
              /\ \A i \in 1..(Len(sorted_borda_dict) - 1) :
                    sorted_borda_dict[i].val = sorted_borda_dict[i + 1].val =>
                        NameLeq(ResultNames[i], ResultNames[i + 1])

\* The header " A; B": the first name is returned as "A", the second one
\* as " B", and on a tie " B" comes first, a space being less than "A".
C17_Witness ==
    /\ Returned
    /\ file.header = RawLine(<<" ", "A", ";", " ", "B">>)
    /\ sorted_borda_dict = << [key |-> <<" ", "B">>, val |-> 1],
                              [key |-> <<"A">>, val |-> 1] >>

\* The header positions that carry the name.
PositionsOf(name) == {i \in 1..Len(ln1_candidates) : ln1_candidates[i] = name}

\* Some name is at two positions of the header.
HeaderRepeatsAName ==
    \E i, j \in 1..Len(ln1_candidates) : i # j /\ ln1_candidates[i] = ln1_candidates[j]

RECURSIVE SumOver(_, _)
\* The sum of f over the finite set S.
SumOver(f, S) ==
    IF S = {} THEN 0
    ELSE LET x == CHOOSE x \in S : TRUE IN f[x] + SumOver(f, S \ {x})

\* C18: when a name is at two or more positions of the header its score is
\* the sum, over the ballots and over every position that carries the
\* name, of (N - ballot[position]); the score of every other name is the
\* one of its own position.  The code violates it: the tally has one key
\* for the name, zip() pairs the ranks with the keys, so a repeated name
\* gets the points of one position only and every name after it the
\* points of an earlier position.
C18_DuplicatesMerged ==
    (Returned /\ HeaderRepeatsAName) =>
        \A name \in Range(ln1_candidates) :
            /\ DictHas(sorted_borda_dict, name)
            /\ DictGet(sorted_borda_dict, name) =
                  SumOver([i \in 1..Len(ln1_candidates) |-> PositionPoints(i)],
                          PositionsOf(name))

\* C19: the tally and the result have one entry for every member of the
\* candidate list, N entries for a header of N names, repeated names
\* included, in the order of the header for the tally; every accumulator
\* is a natural number, zero before the first ballot is counted.  The code
\* violates the count for a header that repeats a name: the dict has one
\* key for it.
C19_OneEntryPerHeaderPosition ==
    /\ pc \in {"tally", "returned"} =>
          /\ Len(final_tally) = Len(ln1_candidates)
          /\ \A i \in 1..Len(final_tally) :
                /\ final_tally[i].key = ln1_candidates[i]
                /\ final_tally[i].val \in Nat
                /\ voteset_pos = 0 => final_tally[i].val = 0
    /\ Returned => Len(sorted_borda_dict) = Len(ln1_candidates)

\* C20 as the specification has it: the MalformedBallot error of a line
\* with a piece that is no integer reports the number of the line and
\* names the piece in its message.  The message of the code is formatted
\* with the line number only and lists the four things that can be wrong
\* with the line.
C20_MessageNamesTheToken ==
    err = "MalformedBallot" =>
        /\ "line" \in err_mentions
        /\ err_line = index_pos + 2
        /\ "token" \in err_mentions

\* C20, amended: the MalformedBallot error of a line with a piece that is
\* no integer reports the file line number of that line, and the line
\* number is the only value of the load in its message: the piece is not
\* named.
C20_MessageNamesTheLineOnly ==
    err = "MalformedBallot" =>
        /\ Raised
        /\ err_mentions = {"line"}
        /\ err_line = index_pos + 2
        /\ index_pos + 1 \in 1..Len(lines_from_second)
        /\ HasUnparsablePiece(lines_from_second[index_pos + 1])

\* Scenario F: the line 1;x after the header A;B is reported as line 2.
C20_Witness ==
    /\ Raised
    /\ err = "MalformedBallot"
    /\ err_line = 2
    /\ err_mentions = {"line"}
    /\ ln1 = <<"A", ";", "B">>
    /\ lines_from_second = << <<"1", ";", "x">> >>

\* C21: a vote line is accepted only if it is made of decimal digits and
\* semicolons and of nothing else: a line with a sign, an underscore or a
\* space in it is rejected as malformed.  The code violates it: int()
\* accepts a piece with a sign, with whitespace around it and with an
\* underscore between two digits, so "+1" is accepted as the ballot 1.
C21_OnlyDigitsAndSemicolons ==
    \A k \in 1..Len(meta_cleaned_votes_list) :
        \A i \in 1..Len(lines_from_second[k]) :
            IsDigit(lines_from_second[k][i]) \/ lines_from_second[k][i] = SEMI

\* The window is between two callbacks.
Idle == pc = "idle"

\* The last click: "choose" or "cancel" for 'Find my file' with and
\* without a file chosen, "load" for 'Load file'.
LastEvent == IF gui.events = <<>> THEN "none" ELSE gui.events[Len(gui.events)]

\* The last callback was a load and load_file returned a result.
AfterSuccessfulLoad == Idle /\ LastEvent = "load" /\ sorted_borda_dict # <<>>

\* The places of the line terminators of a text, and the k-th of them.
TerminatorsOf(t) == {i \in 1..Len(t) : t[i] = NL}
TerminatorAt(t, k) ==
    CHOOSE i \in TerminatorsOf(t) :
        Cardinality({j \in TerminatorsOf(t) : j <= i}) = k

\* The number of lines of a text that is not empty, and its k-th line.
LineCount(t) == Cardinality(TerminatorsOf(t)) + 1
LineAt(t, k) ==
    SubSeq(t, IF k = 1 THEN 1 ELSE TerminatorAt(t, k - 1) + 1,
              IF k = LineCount(t) THEN Len(t) ELSE TerminatorAt(t, k) - 1)

\* The line is the name, a colon, a space and the decimal digits of the
\* score.
IsEntryLine(line, name, score) ==
    LET digits == SubSeq(line, Len(name) + 3, Len(line))
    IN  /\ Len(line) >= Len(name) + 3
        /\ SubSeq(line, 1, Len(name)) = name
        /\ line[Len(name) + 1] = ":"
        /\ line[Len(name) + 2] = " "
        /\ \A i \in 1..Len(digits) : IsDigit(digits[i])
        /\ (Len(digits) > 1 => digits[1] # "0")
        /\ DigitsValue(digits, 0) = score

\* C22: after a successful load the window displays one line
\* "<candidate>: <score>" for every entry of the returned result, in the
\* order of the result (the score descending, ties in the order of the
\* names), none left out, repeated or moved.
C22_ResultDisplayedInOrder ==
    AfterSuccessfulLoad =>
        /\ gui.text_loaded_output.kind = "results"
        /\ gui.text_loaded_output.basename = basename(gui.selected_file_path)
        /\ LineCount(gui.text_loaded_output.body) = Len(sorted_borda_dict)
        /\ \A k \in 1..Len(sorted_borda_dict) :
              IsEntryLine(LineAt(gui.text_loaded_output.body, k),
                          sorted_borda_dict[k].key, sorted_borda_dict[k].val)
        /\ \A k \in 1..(Len(sorted_borda_dict) - 1) :
              \/ sorted_borda_dict[k].val > sorted_borda_dict[k + 1].val
              \/ /\ sorted_borda_dict[k].val = sorted_borda_dict[k + 1].val
                 /\ NameLeq(sorted_borda_dict[k].key, sorted_borda_dict[k + 1].key)

\* The file A;B;C with five ballots 3;2;1 is displayed as the lines
\* "C: 10", "B: 5", "A: 0".
C22_Witness ==
    /\ AfterSuccessfulLoad
    /\ gui.selected_file_path = TmpVotes
    /\ gui.text_loaded_output =
          [kind |-> "results", basename |-> "votes.txt",
           body |-> <<"C", ":", " ", "1", "0", NL, "B", ":", " ", "5", NL,
                      "A", ":", " ", "0">>]

\* C23: a click on 'Load file' while no file is selected does not call
\* load_file and is no error: the prompt to select a file is displayed,
\* the callback returns, and the selected path is still empty.
C23_LoadWithoutFile ==
    /\ gui.selected_file_path = <<>> =>
          /\ Idle
          /\ gui.loads = 0
          /\ err = "none"
          /\ gui.label_file_selected = NoFileLabel
    /\ (LastEvent = "load" /\ gui.selected_file_path = <<>>) =>
          /\ gui.text_loaded_output = NoFilePrompt
          /\ gui.text_state = "disabled"
          /\ ~gui.uncaught
    /\ gui.text_loaded_output = NoFilePrompt =>
          "load" \in Range(gui.events)

\* The dialogue was cancelled, then 'Load file' was clicked.
C23_Witness ==
    /\ Idle
    /\ gui.events = <<"cancel", "load">>
    /\ gui.selected_file_path = <<>>
    /\ gui.text_loaded_output = NoFilePrompt

\* C24: the tally has no way to fail on input the validators accepted:
\* whenever calculate_and_sort_borda_results is entered every ballot is a
\* list of integers, no pass of the tally loop and no sort raises (the
\* load never ends with the internal error), and the function goes on to
\* return a dict.
C24_TallyNeverRaises ==
    /\ err # "InternalError"
    /\ pc \in {"calculate", "tally", "returned"} =>
          \A k \in 1..Len(meta_cleaned_votes_list) :
              \A i \in 1..Len(meta_cleaned_votes_list[k]) :
                  meta_cleaned_votes_list[k][i] \in Int
    /\ pc = "tally" =>
          /\ voteset_pos \in 0..Len(meta_cleaned_votes_list)
          /\ ~sort_raises(final_tally)
          /\ voteset_pos < Len(meta_cleaned_votes_list) =>
                ~tally_raises(final_tally, meta_cleaned_votes_list[voteset_pos + 1])
    /\ Returned => sorted_borda_dict # <<>>

\* The header A;A: the ballot has more ranks than the tally has keys, and
\* the tally still returns.
C24_Witness ==
    /\ Returned
    /\ ln1_candidates = << <<"A">>, <<"A">> >>
    /\ meta_cleaned_votes_list = << <<2, 1>> >>
    /\ sorted_borda_dict = << [key |-> <<"A">>, val |-> 0] >>

\* The line of the file has nothing but whitespace in it.
IsBlank(raw) == \A i \in 1..Len(raw) : IsSpace(raw[i])

\* Line k after the header is the first blank one, and the lines before it
\* are complete rankings.
FirstBlankLine(k) ==
    /\ k \in 1..Len(file.lines)
    /\ IsBlank(file.lines[k])
    /\ \A j \in 1..(k - 1) :
          IsCompleteRanking(BetweenWhitespace(file.lines[j]), N)

\* C25: when the load succeeds the ballot set has one ballot for every
\* line of the file after the header, in the order of the lines, ballot k
\* being the integers of line k; a blank line is never skipped: a file
\* whose other lines are complete rankings and that has a blank line after
\* the header, an extra one at its end included, fails at that line.
C25_OneBallotPerLine ==
    /\ Returned =>
          /\ Len(meta_cleaned_votes_list) = Len(file.lines)
          /\ \A k \in 1..Len(file.lines) :
                /\ ~IsBlank(file.lines[k])
                /\ meta_cleaned_votes_list[k] =
                      LineInts(BetweenWhitespace(file.lines[k]))
    /\ (FileWasRead /\ HeaderAccepted /\ Terminated) =>
          \A k \in 1..Len(file.lines) :
              FirstBlankLine(k) =>
                  /\ Raised
                  /\ err = "MalformedBallot"
                  /\ err_line = k + 1
                  /\ Len(meta_cleaned_votes_list) = k - 1

\* The ballot 1;2 and an extra blank line after it: the load fails at
\* line 3.
C25_Witness ==
    /\ Raised
    /\ err = "MalformedBallot"
    /\ err_line = 3
    /\ file.lines = << <<"1", ";", "2", NL>>, <<NL>> >>
    /\ meta_cleaned_votes_list = << <<1, 2>> >>

\* The class of the exception of each error of load_file, as Python names
\* it.
ClassNameOf(kind) ==
    IF kind \in {"MalformedHeader", "NoBallots", "MalformedBallot",
                 "BallotLengthMismatch", "IncompleteRanking", "InternalError"}
    THEN "ValueError"
    ELSE IF kind = "NotFound" THEN "FileNotFoundError"
    ELSE IF kind = "PermissionDenied" THEN "PermissionError"
    ELSE IF kind = "IOFailure" THEN "OSError"
    ELSE kind

\* The callback that is running has a next step: load_file is at a
\* statement it can execute, or it has ended and the callback formats what
\* came out of it.
CallbackCanStep ==
    \/ pc \in {"load_file", "read_file", "valid_first_line", "check_votes",
                "calculate", "returned", "raised"}
    \/ pc = "vote_line" /\ index_pos < Len(lines_from_second)
    \/ pc = "tally" /\ voteset_pos <= Len(meta_cleaned_votes_list)

\* C26: handle_load_file_click catches every error load_file raises (of
\* the file, the header, the ballots, the tally): the text of the widget
\* is replaced as a whole by the name of the class of the error and its
\* message, no exception ever leaves a callback, a callback that has
\* started always goes on to its end, and between two callbacks the widget
\* is read-only.
C26_EveryErrorDisplayed ==
    /\ ~gui.uncaught
    /\ gui.text_state = "disabled"
    /\ ~Idle => CallbackCanStep
    /\ (Idle /\ LastEvent = "load" /\ err # "none") =>
          gui.text_loaded_output =
              [kind |-> "error", name |-> ClassNameOf(err),
               details |-> [err |-> err, line |-> err_line,
                            mentions |-> err_mentions]]
    /\ (Idle /\ LastEvent = "load" /\ gui.selected_file_path # <<>>) =>
          (err # "none" <=> gui.text_loaded_output.kind = "error")

\* The file at the selected path is gone: the FileNotFoundError is
\* displayed.
C26_Witness ==
    /\ Idle
    /\ gui.selected_file_path = HomeGone
    /\ gui.text_loaded_output.kind = "error"
    /\ gui.text_loaded_output.name = "FileNotFoundError"
    /\ gui.text_loaded_output.details.mentions = {"filename"}
    /\ gui.text_state = "disabled"

\* C27: a click on 'Find my file' clears the output text, so that the
\* result or the error of a file that was loaded before is never on
\* display while another file is the selected one.  The code violates it:
\* open_file_dialog of gui.py does not touch the Text widget, and the text
\* of the last load stays when another file is chosen.
C27_OutputClearedOnSelection ==
    /\ LastEvent \in {"choose", "cancel"} =>
          gui.text_loaded_output = [kind |-> "empty"]
    /\ (Idle /\ gui.text_loaded_output.kind \in {"results", "error"}) =>
          file = FileSystem(gui.selected_file_path)

\* The selected path and the label say the same: no file, or the basename
\* of the selected path.
LabelShowsSelection ==
    IF gui.selected_file_path = <<>>
    THEN gui.label_file_selected = NoFileLabel
    ELSE gui.label_file_selected =
             [text |-> "File selected: ",
              name |-> gui.selected_file_path[Len(gui.selected_file_path)]]

\* C28: cancelling the file dialogue leaves the selected path and the
\* label as they are, and a load, failing or not, never changes them: the
\* path and the label change only in a click on 'Find my file' in which a
\* file is chosen; the label always names the selected path, and a click
\* on 'Load file' loads the file at the selected path, the one chosen
\* before a cancelled dialogue included.
C28_SelectionChangesOnlyOnChoice ==
    [][ /\ LabelShowsSelection'
        /\ (gui'.selected_file_path # gui.selected_file_path
                \/ gui'.label_file_selected # gui.label_file_selected) =>
              /\ Idle
              /\ gui'.events = Append(gui.events, "choose")
              /\ gui'.selected_file_path # <<>>
        /\ (Idle /\ pc' = "load_file") =>
              /\ gui'.selected_file_path = gui.selected_file_path
              /\ file' = FileSystem(gui.selected_file_path) ]_vars

\* A file is chosen, the next dialogue is cancelled, and the click on
\* 'Load file' after it has loaded the file chosen first.
C28_Witness ==
    /\ Idle
    /\ gui.events = <<"choose", "cancel", "load">>
    /\ gui.selected_file_path = HomeVotes
    /\ file = FileSystem(HomeVotes)
    /\ gui.text_loaded_output.kind = "results"

\* C29: when the names of the header are pairwise distinct the result of
\* an accepted file has exactly N entries, one for every name of the
\* header, the score of a name is the sum over the ballots of (N - the
\* rank at the header position of the name), and every score is between 0
\* and M * (N - 1).
C29_DistinctNamesScores ==
    (Returned /\ ~HeaderRepeatsAName) =>
        /\ Len(sorted_borda_dict) = Len(ln1_candidates)
        /\ \A i \in 1..Len(ln1_candidates) :
              /\ Cardinality({k \in 1..Len(sorted_borda_dict) :
                                 sorted_borda_dict[k].key = ln1_candidates[i]}) = 1
              /\ \A k \in 1..Len(sorted_borda_dict) :
                    sorted_borda_dict[k].key = ln1_candidates[i] =>
                        /\ sorted_borda_dict[k].val = PositionPoints(i)
                        /\ sorted_borda_dict[k].val \in
                              0..(Len(meta_cleaned_votes_list) * (Len(ln1_candidates) - 1))

\* The header B;A with the ballots 1;2 and 1;2: B has 2 points, the most
\* two ballots can give, and A has none.
C29_Witness ==
    /\ Returned
    /\ ln1_candidates = << <<"B">>, <<"A">> >>
    /\ meta_cleaned_votes_list = << <<1, 2>>, <<1, 2>> >>
    /\ sorted_borda_dict = << [key |-> <<"B">>, val |-> 2], [key |-> <<"A">>, val |-> 0] >>

\* The ballots in the order p gives them.
Reordered(votes, p) == [k \in 1..Len(votes) |-> votes[p[k]]]

\* C30: the result does not depend on the order of the ballots: for an
\* accepted file, the ballots taken in any other order give the same
\* mapping of names to scores in the same order.
C30_BallotOrderIrrelevant ==
    Returned =>
        \A p \in PermsOf(Len(meta_cleaned_votes_list)) :
            calculate_and_sort_borda_results(
                ln1_candidates, Reordered(meta_cleaned_votes_list, p))
              = sorted_borda_dict

\* Two different ballots, whose order could matter.
C30_Witness ==
    /\ Returned
    /\ ln1_candidates = << <<"B">>, <<"A">> >>
    /\ meta_cleaned_votes_list = << <<1, 2>>, <<2, 1>> >>
    /\ sorted_borda_dict = << [key |-> <<"A">>, val |-> 1], [key |-> <<"B">>, val |-> 1] >>

=============================================================================
